---- MODULE Spec2Model ----
(***************************************************************************)
(* Model of the elevator controller in ElevatorSimulation (React           *)
(* component): the six pieces of React state, the 16 ms interval callback  *)
(* (the tick state machine), the auto-close setTimeout callbacks and       *)
(* handleFloorSelect.                                                      *)
(*                                                                         *)
(* Number representation.  The code computes in floating point seconds and *)
(* metres with dt = 0.016.  The model computes the same expressions        *)
(* exactly, in fixed point:                                                *)
(*    time          milliseconds            dt = 16                        *)
(*    velocity      millimetres per second  (m/s^2 * ms = mm/s)            *)
(*    position      micrometres             (mm/s * ms = um)               *)
(*    doorProgress  thousandths             (0 .. 1000)                    *)
(* All values the code produces are integers in these units, so every      *)
(* comparison is decided as in the code up to floating point rounding of   *)
(* order 1e-15.                                                            *)
(*                                                                         *)
(* targetFloor is a sequence: << >> is null, <<f>> is floor f.             *)
(*                                                                         *)
(* event is a history variable, not program state: the kind of the last    *)
(* step, "tick", "timer", "zero" (a zero time step, SpecZeroStep only), or  *)
(* the outcome of a handleFloorSelect call, "admitted" (setTargetFloor     *)
(* ran) or "rejected" (the early return).                                  *)
(*                                                                         *)
(* The interval callback is re-created by the effect after every state     *)
(* change (all six states are in its dependency list), so a tick reads the *)
(* current state.  A setTimeout callback is never re-created: it keeps the *)
(* state and targetFloor of the render that scheduled it.                  *)
(***************************************************************************)
EXTENDS Integers, Sequences, FiniteSets, TLC

VARIABLES currentFloor, targetFloor, state, velocity, position, doorProgress,
          timers, event

car  == <<currentFloor, targetFloor, state, velocity, position, doorProgress>>
vars == <<currentFloor, targetFloor, state, velocity, position, doorProgress,
          timers, event>>

\* ---------------------------------------------------------------- CONFIG
FLOORS == 6
FLOOR_HEIGHT == 4
ELEVATOR_SPEED_MAX == 2
ACCELERATION == 1
DECELERATION == 1
DOOR_ANIMATION_TIME == 1000
dt == 16

\* ---------------------------------------------------------------- bounds
\* At most MaxTimers auto-close callbacks are pending at once: a tick in
\* DOORS_OPEN that would schedule one more waits for a callback to run.
MaxTimers == 2

\* The number of pending timer callbacks in SpecLongHold.
MaxTimersLongHold == 3

\* ---------------------------------------------------------------- types
IDLE == "IDLE"
DOORS_OPENING == "DOORS_OPENING"
DOORS_OPEN == "DOORS_OPEN"
DOORS_CLOSING == "DOORS_CLOSING"
MOVING_UP == "MOVING_UP"
MOVING_DOWN == "MOVING_DOWN"

ElevatorState ==
  {IDLE, DOORS_OPENING, DOORS_OPEN, DOORS_CLOSING, MOVING_UP, MOVING_DOWN}

NULL == << >>

\* The floors that have a button.
Floors == 0 .. (FLOORS - 1)

Max(a, b) == IF a >= b THEN a ELSE b
Min(a, b) == IF a <= b THEN a ELSE b
Abs(a) == IF a >= 0 THEN a ELSE 0 - a

\* Position of a floor, micrometres.
FloorY(floor) == floor * FLOOR_HEIGHT * 1000000

\* Speed limit, millimetres per second.
SpeedMax == ELEVATOR_SPEED_MAX * 1000

\* Change of doorProgress in one tick, thousandths:
\* dt * (1 / (DOOR_ANIMATION_TIME / 1000)).
DoorStep == (dt * 1000) \div DOOR_ANIMATION_TIME

\* The floors requested in SpecArrived: the three lowest buttons.
NearFloors == {0, 1, 2}

\* ---------------------------------------------------------------- Init
Init ==
  /\ currentFloor = 0
  /\ targetFloor = NULL
  /\ state = IDLE
  /\ velocity = 0
  /\ position = 0
  /\ doorProgress = 0
  /\ timers = << >>
  /\ event = "init"

\* ---------------------------------------------------------------- tick
\* const targetY = targetFloor !== null ? targetFloor * FLOOR_HEIGHT : currentY
targetY == IF targetFloor # NULL THEN FloorY(targetFloor[1]) ELSE position

\* v^2 = 2as, micrometres.
decelerationDistance == (velocity * velocity) \div (2 * DECELERATION)

\* newVelocity without the Math.max(0, ...) of the deceleration branch.
newVelocity_noFloor ==
  IF Abs(targetY - position) <= decelerationDistance + 100000
    THEN velocity - DECELERATION * dt
    ELSE IF velocity < SpeedMax
           THEN Min(SpeedMax, velocity + ACCELERATION * dt)
           ELSE velocity

\* The velocity the MOVING case computes before the arrival test.
newVelocity ==
  IF Abs(targetY - position) <= decelerationDistance + 100000
    THEN Max(0, velocity - DECELERATION * dt)
    ELSE IF velocity < SpeedMax
           THEN Min(SpeedMax, velocity + ACCELERATION * dt)
           ELSE velocity

\* The position the MOVING case computes before the arrival test.
newPosition ==
  position + (IF state = MOVING_UP THEN newVelocity ELSE 0 - newVelocity) * dt

\* Check if reached target.
reached ==
  \/ state = MOVING_UP /\ newPosition >= targetY
  \/ state # MOVING_UP /\ newPosition <= targetY

TickIdle ==
  /\ state' = IF targetFloor # NULL /\ targetFloor[1] # currentFloor
                THEN DOORS_CLOSING ELSE state
  /\ UNCHANGED <<currentFloor, targetFloor, velocity, position, doorProgress,
                 timers>>

TickDoorsClosing_early ==
  LET next == Max(0, doorProgress - DoorStep) IN
  /\ doorProgress' = next
  /\ state' = IF targetFloor # NULL
                THEN (IF targetFloor[1] > currentFloor
                        THEN MOVING_UP ELSE MOVING_DOWN)
                ELSE state
  /\ UNCHANGED <<currentFloor, targetFloor, velocity, position, timers>>

TickDoorsClosing_wrongWay ==
  LET next == Max(0, doorProgress - DoorStep) IN
  /\ doorProgress' = next
  /\ state' = IF next = 0 /\ targetFloor # NULL
                THEN (IF targetFloor[1] < currentFloor
                        THEN MOVING_UP ELSE MOVING_DOWN)
                ELSE state
  /\ UNCHANGED <<currentFloor, targetFloor, velocity, position, timers>>

TickDoorsClosing ==
  LET next == Max(0, doorProgress - DoorStep) IN
  /\ doorProgress' = next
  /\ state' = IF next = 0 /\ targetFloor # NULL
                THEN (IF targetFloor[1] > currentFloor
                        THEN MOVING_UP ELSE MOVING_DOWN)
                ELSE state
  /\ UNCHANGED <<currentFloor, targetFloor, velocity, position, timers>>

\* targetFloor! is modelled by targetFloor[1]: evaluating it with a null
\* target is an error, which the model checker reports.
TickMoving_keepsTarget ==
  /\ IF reached
       THEN /\ position' = targetY
            /\ velocity' = 0
            /\ currentFloor' = targetFloor[1]
            /\ state' = DOORS_OPENING
            /\ UNCHANGED targetFloor
       ELSE /\ position' = newPosition
            /\ velocity' = newVelocity
            /\ UNCHANGED <<currentFloor, targetFloor, state>>
  /\ UNCHANGED <<doorProgress, timers>>

TickMoving ==
  /\ IF reached
       THEN /\ position' = targetY
            /\ velocity' = 0
            /\ currentFloor' = targetFloor[1]
            /\ targetFloor' = NULL
            /\ state' = DOORS_OPENING
       ELSE /\ position' = newPosition
            /\ velocity' = newVelocity
            /\ UNCHANGED <<currentFloor, targetFloor, state>>
  /\ UNCHANGED <<doorProgress, timers>>

TickDoorsOpening_noCap ==
  LET next == doorProgress + DoorStep IN
  /\ doorProgress' = next
  /\ state' = IF next >= 1000 THEN DOORS_OPEN ELSE state
  /\ UNCHANGED <<currentFloor, targetFloor, velocity, position, timers>>

TickDoorsOpening_dropsTarget ==
  LET next == Min(1000, doorProgress + DoorStep) IN
  /\ doorProgress' = next
  /\ state' = IF next = 1000 THEN DOORS_OPEN ELSE state
  /\ targetFloor' = IF next = 1000 THEN NULL ELSE targetFloor
  /\ UNCHANGED <<currentFloor, velocity, position, timers>>

TickDoorsOpening ==
  LET next == Min(1000, doorProgress + DoorStep) IN
  /\ doorProgress' = next
  /\ state' = IF next = 1000 THEN DOORS_OPEN ELSE state
  /\ UNCHANGED <<currentFloor, targetFloor, velocity, position, timers>>

\* setTimeout(() => {...}, DOOR_OPEN_TIME): the callback keeps the state and
\* the targetFloor of this render.
TickDoorsOpen ==
  /\ Len(timers) < MaxTimers
  /\ timers' = Append(timers, [state |-> state, targetFloor |-> targetFloor])
  /\ UNCHANGED car

Tick ==
  /\ CASE state = IDLE -> TickIdle
       [] state = DOORS_CLOSING -> TickDoorsClosing
       [] state \in {MOVING_UP, MOVING_DOWN} -> TickMoving
       [] state = DOORS_OPENING -> TickDoorsOpening
       [] state = DOORS_OPEN -> TickDoorsOpen
  /\ event' = "tick"

\* ---------------------------------------------------------------- select
\* Rejects without the MOVING_DOWN test.
Rejects_noMovingDown(floor) ==
  \/ floor = currentFloor
  \/ state = MOVING_UP
  \/ state = DOORS_CLOSING

\* Rejects without the floor === currentFloor test.
Rejects_noCurrentFloor(floor) ==
  \/ state = MOVING_UP
  \/ state = MOVING_DOWN
  \/ state = DOORS_CLOSING

\* Rejects that also returns early while the doors are opening.
Rejects_whileOpening(floor) ==
  \/ floor = currentFloor
  \/ state = MOVING_UP
  \/ state = MOVING_DOWN
  \/ state = DOORS_CLOSING
  \/ state = DOORS_OPENING

\* The condition under which handleFloorSelect returns without effect.
Rejects(floor) ==
  \/ floor = currentFloor
  \/ state = MOVING_UP
  \/ state = MOVING_DOWN
  \/ state = DOORS_CLOSING

handleFloorSelect(floor) ==
  /\ IF Rejects(floor)
       THEN /\ UNCHANGED targetFloor
            /\ event' = "rejected"
       ELSE /\ targetFloor' = <<floor>>
            /\ event' = "admitted"
  /\ UNCHANGED <<currentFloor, state, velocity, position, doorProgress, timers>>

\* Disabled without the DOORS_CLOSING test.
Disabled_noDoorsClosing(floor) ==
  \/ floor = currentFloor
  \/ state = MOVING_UP
  \/ state = MOVING_DOWN

\* The disabled attribute of the button of a floor.
Disabled(floor) ==
  \/ floor = currentFloor
  \/ state = MOVING_UP
  \/ state = MOVING_DOWN
  \/ state = DOORS_CLOSING

SelectFloor == \E floor \in Floors : handleFloorSelect(floor)

SelectNearFloor == \E floor \in NearFloors : handleFloorSelect(floor)

\* ---------------------------------------------------------------- timer
\* The setTimeout callback that was scheduled first runs: it tests the state
\* it captured, and chooses the next state from the targetFloor it captured.
TimerFire ==
  /\ timers # << >>
  /\ LET t == Head(timers) IN
       state' = IF t.state = DOORS_OPEN
                  THEN (IF t.targetFloor # NULL THEN DOORS_CLOSING ELSE IDLE)
                  ELSE state
  /\ timers' = Tail(timers)
  /\ event' = "timer"
  /\ UNCHANGED <<currentFloor, targetFloor, velocity, position, doorProgress>>

\* ---------------------------------------------------------------- specs
\* The program from its construction, with every button.  No state it
\* reaches has a pending setTimeout callback (DOORS_OPEN is not reached, see
\* C1), so the interval callback and handleFloorSelect are all that run.
Next == Tick \/ SelectFloor

Spec == Init /\ [][Next]_vars

\* The program continued from the state that the arrival branch of the
\* MOVING case writes (setCurrentFloor, setTargetFloor(null), velocity 0,
\* position snapped, DOORS_OPENING), here for floor 0 with the doors still
\* closed.  The construction state does not lead to this branch (C1); this
\* specification is what the door, timer and request code does once it runs.
\* A callback may run any number of ticks after it was scheduled: the delay
\* of setTimeout is wall-clock time, and the interval is re-armed on every
\* state change and throttled with the page.
InitArrived ==
  /\ currentFloor = 0
  /\ targetFloor = NULL
  /\ state = DOORS_OPENING
  /\ velocity = 0
  /\ position = FloorY(currentFloor)
  /\ doorProgress = 0
  /\ timers = << >>
  /\ event = "init"

NextArrived == Tick \/ SelectNearFloor \/ TimerFire

SpecArrived == InitArrived /\ [][NextArrived]_vars

\* The floor arguments of SpecAnyFloor: every button, and the two numbers
\* next to the shaft.  handleFloorSelect takes a number; the buttons pass
\* 0 .. FLOORS-1 only.
CallFloors == (0 - 1) .. FLOORS

SelectAnyFloor == \E floor \in CallFloors : handleFloorSelect(floor)

NextAnyFloor == Tick \/ SelectAnyFloor

\* The program from its construction, with handleFloorSelect called with
\* any number of CallFloors.
SpecAnyFloor == Init /\ [][NextAnyFloor]_vars

\* The body of the interval callback with its constant dt replaced by d.
\* The code has no time-step argument: dt is the constant of line 290, and
\* TickAt(dt) is Tick.
TickAt(d) ==
  LET doorStep == (d * 1000) \div DOOR_ANIMATION_TIME
      v1 == IF Abs(targetY - position) <= decelerationDistance + 100000
              THEN Max(0, velocity - DECELERATION * d)
              ELSE IF velocity < SpeedMax
                     THEN Min(SpeedMax, velocity + ACCELERATION * d)
                     ELSE velocity
      p1 == position + (IF state = MOVING_UP THEN v1 ELSE 0 - v1) * d
      hit == \/ state = MOVING_UP /\ p1 >= targetY
             \/ state # MOVING_UP /\ p1 <= targetY
      closed == Max(0, doorProgress - doorStep)
      opened == Min(1000, doorProgress + doorStep)
  IN
  CASE state = IDLE -> TickIdle
    [] state = DOORS_CLOSING ->
         /\ doorProgress' = closed
         /\ state' = IF closed = 0 /\ targetFloor # NULL
                       THEN (IF targetFloor[1] > currentFloor
                               THEN MOVING_UP ELSE MOVING_DOWN)
                       ELSE state
         /\ UNCHANGED <<currentFloor, targetFloor, velocity, position, timers>>
    [] state \in {MOVING_UP, MOVING_DOWN} ->
         /\ IF hit
              THEN /\ position' = targetY
                   /\ velocity' = 0
                   /\ currentFloor' = targetFloor[1]
                   /\ targetFloor' = NULL
                   /\ state' = DOORS_OPENING
              ELSE /\ position' = p1
                   /\ velocity' = v1
                   /\ UNCHANGED <<currentFloor, targetFloor, state>>
         /\ UNCHANGED <<doorProgress, timers>>
    [] state = DOORS_OPENING ->
         /\ doorProgress' = opened
         /\ state' = IF opened = 1000 THEN DOORS_OPEN ELSE state
         /\ UNCHANGED <<currentFloor, targetFloor, velocity, position, timers>>
    [] state = DOORS_OPEN -> TickDoorsOpen

\* The callback body run with a time step of zero.
ZeroTick ==
  /\ TickAt(0)
  /\ event' = "zero"

NextZeroStep == Tick \/ SelectFloor \/ ZeroTick

\* The program from its construction, with zero time steps among the ticks.
SpecZeroStep == Init /\ [][NextZeroStep]_vars

\* SpecArrived with the scheduling of the browser: the interval keeps
\* calling its callback and every scheduled timeout is eventually run.
SpecArrivedFair == SpecArrived /\ WF_vars(Tick) /\ WF_vars(TimerFire)

\* One more tick of the DOORS_OPEN case while MaxTimers callbacks are
\* pending already: the hold lasts longer and one more timeout is scheduled.
TickDoorsOpenLongHold ==
  /\ state = DOORS_OPEN
  /\ Len(timers) >= MaxTimers
  /\ Len(timers) < MaxTimersLongHold
  /\ timers' = Append(timers, [state |-> state, targetFloor |-> targetFloor])
  /\ UNCHANGED car
  /\ event' = "tick"

NextLongHold == Tick \/ SelectNearFloor \/ TimerFire \/ TickDoorsOpenLongHold

\* SpecArrived with a longer door hold.
SpecLongHold == InitArrived /\ [][NextLongHold]_vars

\* ---------------------------------------------------------------- claims
IsMoving == state \in {MOVING_UP, MOVING_DOWN}

\* The step is a handleFloorSelect call (only it writes these two values).
IsSelectStep == event' \in {"admitted", "rejected"}

\* A tick in a MOVING state that changes nothing: the car stands still and
\* the arrival test fails.
RestsShort ==
  /\ IsMoving
  /\ velocity = 0
  /\ newVelocity = 0
  /\ ~reached

\* C1: once the car is in MOVING_UP or MOVING_DOWN it arrives; it never
\* comes to rest (velocity 0, ticks changing nothing) short of the target
\* while still in a MOVING state.
C1_NeverRestsShort == ~RestsShort

\* C2: in every state, 0 <= position <= (FLOORS-1)*FLOOR_HEIGHT,
\* 0 <= velocity <= ELEVATOR_SPEED_MAX and 0 <= doorProgress <= 1, after any
\* sequence of ticks, auto-close callbacks and handleFloorSelect calls.
C2_Bounds ==
  /\ 0 <= position /\ position <= FloorY(FLOORS - 1)
  /\ 0 <= velocity /\ velocity <= SpeedMax
  /\ 0 <= doorProgress /\ doorProgress <= 1000

\* The car cruises at the speed limit above floor 1, after doors have moved
\* and an auto-close callback has run.
C2_Witness ==
  /\ IsMoving
  /\ velocity = SpeedMax
  /\ position > FloorY(1)

\* A tick changes nothing in the car state.
TickQuiescent ==
  CASE state = IDLE -> targetFloor = NULL \/ targetFloor = <<currentFloor>>
    [] state = DOORS_CLOSING -> doorProgress = 0 /\ targetFloor = NULL
    [] IsMoving -> ~reached /\ newVelocity = velocity /\ newPosition = position
    [] state = DOORS_OPENING -> FALSE
    [] state = DOORS_OPEN -> TRUE

\* C3: from IDLE at floor 0, after selectFloor(3), ticking goes through
\* IDLE, DOORS_CLOSING, MOVING_UP, DOORS_OPENING, DOORS_OPEN and ends with
\* currentFloor = 3, velocity = 0 and position = 12.0: once the trip to
\* floor 3 has left IDLE, the only state in which ticking changes nothing
\* more is that final one.
C3_ScenarioEndsAtFloor3 ==
  (targetFloor = <<3>> /\ state # IDLE /\ TickQuiescent)
    => /\ state = DOORS_OPEN
       /\ currentFloor = 3
       /\ velocity = 0
       /\ position = FloorY(3)

C7_BusyRejects ==
  [][(IsSelectStep /\ state \in {MOVING_UP, MOVING_DOWN, DOORS_CLOSING})
       => \A floor \in Floors :
            handleFloorSelect(floor)
              => (event' = "rejected" /\ UNCHANGED car)]_vars

\* A call was rejected while the car travels down at speed.
C7_Witness ==
  /\ event = "rejected"
  /\ state = MOVING_DOWN
  /\ velocity > 0
  /\ targetFloor # NULL

\* C8: handleFloorSelect(currentFloor) is rejected in every state and
\* changes nothing.
C8_CurrentFloorRejects ==
  [][(IsSelectStep /\ handleFloorSelect(currentFloor))
       => (event' = "rejected" /\ UNCHANGED car)]_vars

\* A call was rejected while the doors stand open: it was the call for the
\* current floor, no other is rejected there.
C8_Witness ==
  /\ event = "rejected"
  /\ state = DOORS_OPEN

\* C9: a handleFloorSelect(floor) call with floor # currentFloor in IDLE,
\* DOORS_OPENING or DOORS_OPEN is admitted: afterwards targetFloor = floor,
\* and state, position, velocity, currentFloor and doorProgress are as
\* before.
C9_AdmitSetsTarget ==
  [][(IsSelectStep /\ state \in {IDLE, DOORS_OPENING, DOORS_OPEN})
       => \A floor \in Floors :
            (floor # currentFloor /\ handleFloorSelect(floor))
              => /\ event' = "admitted"
                 /\ targetFloor' = <<floor>>
                 /\ UNCHANGED <<state, position, velocity, currentFloor,
                                doorProgress>>]_vars

\* A call was admitted while the doors were opening, and replaced nothing
\* else in the state.
C9_Witness ==
  /\ event = "admitted"
  /\ state = DOORS_OPENING
  /\ targetFloor = <<2>>
  /\ doorProgress > 0

\* C10: the button of a floor is disabled exactly when handleFloorSelect
\* for that floor is rejected.
C10_DisabledIffRejected ==
  [][IsSelectStep
       => \A floor \in Floors :
            handleFloorSelect(floor)
              => (Disabled(floor) <=> event' = "rejected")]_vars

\* A call was rejected while the doors are closing with the doors still
\* partly open.
C10_Witness ==
  /\ event = "rejected"
  /\ state = DOORS_CLOSING
  /\ doorProgress > 0

C15_MovingOnlyAfterClosing ==
  [][(state' # state /\ state' \in {MOVING_UP, MOVING_DOWN})
       => /\ state = DOORS_CLOSING
          /\ doorProgress' = 0
          /\ targetFloor # NULL
          /\ (state' = MOVING_UP) = (targetFloor[1] > currentFloor)
          /\ (state' = MOVING_DOWN) = (targetFloor[1] < currentFloor)]_vars

C15_Witness ==
  /\ state = MOVING_DOWN
  /\ event = "tick"
  /\ velocity = 0
  /\ position = FloorY(currentFloor)
  /\ doorProgress = 0

\* C16: a request admitted while the doors are opening or open is not lost.
\* A set targetFloor is changed only by a later admitted request or by the
\* arrival at it, and, with ticks and timers running, the car leaves in a
\* MOVING state towards the requested floor unless a later request has
\* replaced it.
C16_RequestWhileOpenNotLost ==
  /\ [][(targetFloor # NULL /\ targetFloor' # targetFloor)
          => \/ event' = "admitted"
             \/ IsMoving /\ state' = DOORS_OPENING]_vars
  /\ \A f \in NearFloors :
       (state \in {DOORS_OPENING, DOORS_OPEN} /\ targetFloor = <<f>>)
         ~> \/ /\ IsMoving
               /\ targetFloor = <<f>>
               /\ (state = MOVING_UP) = (f > currentFloor)
            \/ targetFloor # <<f>>

C16_Witness ==
  /\ state \in {DOORS_OPENING, DOORS_OPEN}
  /\ event = "admitted"
  /\ targetFloor # NULL
  /\ targetFloor[1] # currentFloor

C18_OpeningReachesOne ==
  [][/\ (state = DOORS_OPENING /\ event' = "tick")
          => /\ doorProgress' = Min(1000, doorProgress + DoorStep)
             /\ doorProgress' > doorProgress
             /\ state' \in {DOORS_OPENING, DOORS_OPEN}
             /\ (state' = DOORS_OPEN) = (doorProgress' = 1000)
     /\ (state' = DOORS_OPEN => doorProgress' = 1000)]_vars

C18_Witness ==
  /\ state = DOORS_OPEN
  /\ event = "tick"
  /\ timers = << >>
  /\ doorProgress = 1000

\* C20: the doors are fully closed whenever the car is in motion or
\* between floors: a MOVING state, a positive velocity or a position off
\* currentFloor * FLOOR_HEIGHT implies doorProgress is 0.
C20_ClosedWhileMoving ==
  (IsMoving \/ velocity > 0 \/ position # FloorY(currentFloor))
    => doorProgress = 0

C20_Witness ==
  /\ IsMoving
  /\ velocity > 0
  /\ position # FloorY(currentFloor)
  /\ doorProgress = 0
  /\ timers # << >>

C22_TargetIsAnotherFloor ==
  targetFloor # NULL => targetFloor[1] # currentFloor

C22_Witness ==
  /\ event = "admitted"
  /\ targetFloor # NULL
  /\ currentFloor # 0
  /\ targetFloor[1] # currentFloor

====
